---- MODULE Spec2Model ----
(***************************************************************************)
(* A model of orbitfit_3d.py, the driver that fits an orbit with a         *)
(* parallel-tempered ensemble sampler: the construction of the initial     *)
(* chain state par0 (hand-tuned guess or checkpoint), the derivation of    *)
(* ntemps / nwalkers / ndim from its shape, the joint log-probability      *)
(* lnprob evaluated statement by statement, the sampler run, and the loop  *)
(* that picks the output file name.                                        *)
(*                                                                         *)
(* Arrays are modelled by their shape (T, W) and by one symbolic row that  *)
(* records, for every column, the column of the source it was taken from.  *)
(* Real numbers returned by the orbit module are modelled symbolically:    *)
(* a return value records which priors were summed and what the            *)
(* likelihood was computed from.                                           *)
(***************************************************************************)
EXTENDS Integers, Sequences, FiniteSets, TLC

VARIABLES
    args,         \* the parsed command line (line 34)
    pc,           \* position of the script
    par0,         \* the initial chain state: [T, W, row]
    ntemps,       \* module-level ntemps (lines 38, 79)
    nwalkers,     \* module-level nwalkers (lines 37, 80)
    ndim,         \* module-level ndim (line 81); 0 before it is assigned
    sampler,      \* the dimensions PTSampler was constructed with (line 154)
    rounds,       \* evaluation rounds run_mcmc completed: the initial
                  \* positions, then one per step
    diagLeft,     \* samples the diagnostics loop (line 162) has yet to visit
    abortAt,      \* where an uncaught exception ended the script, or "none"
    exitStatus,   \* "running", "ok" (exit status 0) or "error" (traceback)
    fs,           \* the candidate output names: index -> "absent" | "file" | "dir"
    fs0,          \* fs as it was when the script started
    idx,          \* loop variable i of the file name loop (line 172)
    written,      \* indices at which this run wrote a file
    pool,         \* the threads that evaluate lnprob
    ev,           \* per thread: the frame of its lnprob call
    models,       \* live orbit.Model objects: id -> accumulated contributions
    freed,        \* ids of Model objects released with model.free()
    modelWrites,  \* <<model id, evaluation id>>: the evaluation wrote the Model
    dataWrites,   \* evaluation ids that wrote the shared data object
    nextModel,    \* next fresh Model identity
    nextEval      \* next evaluation identity

vars == <<args, pc, par0, ntemps, nwalkers, ndim, sampler, rounds, diagLeft,
          abortAt, exitStatus, fs, fs0, idx, written, pool, ev, models, freed,
          modelWrites, dataWrites, nextModel, nextEval>>

scriptVars == <<args, pc, par0, ntemps, nwalkers, ndim, sampler, rounds,
                diagLeft, abortAt, exitStatus>>
fileVars == <<fs, fs0, idx, written>>
evalVars == <<ev, models, freed, modelWrites, dataWrites, nextModel, nextEval>>

----------------------------------------------------------------------------
(* Bounds of the model *)

MaxP == 2          \* planet counts 0..MaxP
MaxT == 2          \* checkpoint temperature counts 0..MaxT
MaxW == 2          \* checkpoint walker counts 0..MaxW
MaxStep == 1       \* --nstep in 0..MaxStep
NumWorkers == 2    \* threads of the pool in SpecEval
MaxSamples == 2    \* samples the diagnostics loop visits, 0..MaxSamples
MaxIndex == 4      \* stands for the 1000 of range(1000) at line 172

(* Program constants *)

GuessWalkers == 100    \* np.ones((ntemps, 100, ...)), line 56
SharedLen == 2         \* jit and mpri, line 57
PlanetLen == 7         \* seven elements per planet, line 59
LegacyCols == 2        \* columns dropped by [:-2], line 77

----------------------------------------------------------------------------
(* The orbit module: Params, lnprior and the calc_* kernels *)

NoParams == <<>>

\* orbit.Params(theta, i, nplanets) reads theta up to index 2 + 7*i + 6
Decodable(theta, i) == Len(theta) >= SharedLen + PlanetLen * (i + 1)

\* orbit.Params(theta, i, nplanets): fixed offsets, the block of planet i
\* starts at 2 + 7*i (0-based); sequences here are 1-based
ParamsOf(theta, i) ==
    LET b == SharedLen + PlanetLen * i
    IN  [jit |-> theta[1], mpri |-> theta[2],
         msec |-> theta[b + 1], sau |-> theta[b + 2],
         esino |-> theta[b + 3], ecoso |-> theta[b + 4],
         inc |-> theta[b + 5], asc |-> theta[b + 6], lam |-> theta[b + 7]]

\* orbit.lnprior(params) is finite exactly when the eccentricity implied by
\* esino and ecoso is below 1
PriorFinite(p) == p.esino * p.esino + p.ecoso * p.ecoso < 1

\* which of the orbit functions write the Model they are handed
WritesModel(fn) ==
    fn \in {"calc_EA_RPP", "calc_RV", "calc_offsets",
            "calc_PMs_epoch_astrometry", "calc_PMs_no_epoch_astrometry"}

\* none of them writes the data object
WritesData(fn) == FALSE

\* a position of the chain: ndim numbers; planet q has esino = 1 (so a
\* non-finite prior) when q is in bad, and carries msec = q + 1
ThetaOf(n, bad) ==
    [j \in 1..n |->
        IF j <= SharedLen THEN 1
        ELSE LET q == (j - SharedLen - 1) \div PlanetLen
                 r == (j - SharedLen - 1) % PlanetLen
             IN  IF r = 0 THEN q + 1
                 ELSE IF r = 2 /\ q \in bad THEN 1
                 ELSE 0]

\* planets that have at least one element in a vector of length n
Blocks(n) ==
    IF n <= SharedLen THEN 0 ELSE (n - SharedLen + PlanetLen - 1) \div PlanetLen

Thetas(n) == {ThetaOf(n, bad) : bad \in SUBSET (0..(Blocks(n) - 1))}

----------------------------------------------------------------------------
(* lnprob(theta, returninfo), lines 117-140, one action per statement *)

nplanets == args.nplanets      \* line 39, never reassigned

NoRet == [kind |-> "none", priors |-> <<>>, lparams |-> <<>>, lmodel |-> <<>>]
NegInf == [kind |-> "neginf", priors |-> <<>>, lparams |-> <<>>, lmodel |-> <<>>]
Raised == [kind |-> "raised", priors |-> <<>>, lparams |-> <<>>, lmodel |-> <<>>]

IdleFrame ==
    [pc |-> "idle", id |-> 0, theta |-> <<>>, returninfo |-> FALSE, i |-> 0,
     params |-> NoParams, model |-> 0, calls |-> <<>>, ret |-> NoRet]

Call(fn, planet) == [fn |-> fn, planet |-> planet]

ModelAcc(m) == IF m \in DOMAIN models THEN models[m] ELSE <<>>

DropModel(m) == [x \in DOMAIN models \ {m} |-> models[x]]

\* the caller (sampler or diagnostics loop) enters lnprob in thread w
Enter(w, theta, returninfo) ==
    /\ ev[w].pc = "idle"
    /\ ev' = [ev EXCEPT ![w] = [IdleFrame EXCEPT !.pc = "L119", !.id = nextEval,
                                  !.theta = theta, !.returninfo = returninfo]]
    /\ nextEval' = nextEval + 1
    /\ UNCHANGED <<models, freed, modelWrites, dataWrites, nextModel>>

\* the identity of the object orbit.Model(data) returns: a fresh one
SharedModel(n) == 0
ModelAlloc(n) == n

\* line 119: model = orbit.Model(data)
AllocModel(w) ==
    /\ ev[w].pc = "L119"
    /\ LET m == ModelAlloc(nextModel)
       IN  /\ ev' = [ev EXCEPT ![w].pc = "L121", ![w].model = m, ![w].i = 0]
           /\ models' = (m :> <<>>) @@ models
    /\ nextModel' = nextModel + 1
    /\ UNCHANGED <<freed, modelWrites, dataWrites, nextEval>>
    /\ UNCHANGED <<scriptVars, fileVars, pool>>

\* the effect of one call fn(data, params, model, ...) made by thread w
DoCall(w, fn, planet, nextpc, nexti) ==
    LET m == ev[w].model
        c == Call(fn, planet)
    IN  /\ ev' = [ev EXCEPT ![w].pc = nextpc, ![w].i = nexti,
                            ![w].calls = Append(@, c)]
        /\ models' = IF WritesModel(fn)
                     THEN (m :> Append(ModelAcc(m), c)) @@ models
                     ELSE models
        /\ modelWrites' = IF WritesModel(fn)
                          THEN modelWrites \cup {<<m, ev[w].id>>}
                          ELSE modelWrites
        /\ dataWrites' = IF WritesData(fn)
                         THEN dataWrites \cup {ev[w].id}
                         ELSE dataWrites
        /\ UNCHANGED <<freed, nextModel, nextEval>>
        /\ UNCHANGED <<scriptVars, fileVars, pool>>

\* lines 121-122: the loop head and params = orbit.Params(theta, i, nplanets)
DecodeParams(w) ==
    /\ ev[w].pc = "L121"
    /\ ev[w].i < nplanets
    /\ Decodable(ev[w].theta, ev[w].i)
    /\ ev' = [ev EXCEPT ![w].pc = "L124",
                        ![w].params = <<ParamsOf(ev[w].theta, ev[w].i)>>]
    /\ UNCHANGED <<models, freed, modelWrites, dataWrites, nextModel, nextEval>>
    /\ UNCHANGED <<scriptVars, fileVars, pool>>

\* line 122 on a vector too short for planet i: the index error leaves lnprob
DecodeRaise(w) ==
    /\ ev[w].pc = "L121"
    /\ ev[w].i < nplanets
    /\ ~Decodable(ev[w].theta, ev[w].i)
    /\ ev' = [ev EXCEPT ![w].pc = "done", ![w].ret = Raised]
    /\ models' = DropModel(ev[w].model)
    /\ UNCHANGED <<freed, modelWrites, dataWrites, nextModel, nextEval>>
    /\ UNCHANGED <<scriptVars, fileVars, pool>>

\* line 124: if not np.isfinite(orbit.lnprior(params))
PriorNeverRejects(p) == FALSE
PriorRejects(p) == ~PriorFinite(p)

\* model.free() at line 125 releases the Model m
KeepModel(m) == freed
FreeModel(m) == freed \cup {m}

\* lines 124-126: the prior is not finite: free the Model, return -inf
PriorReject(w) ==
    /\ ev[w].pc = "L124"
    /\ PriorRejects(ev[w].params[1])
    /\ ev' = [ev EXCEPT ![w].pc = "done", ![w].ret = NegInf,
                        ![w].calls = Append(@, Call("lnprior", ev[w].i))]
    /\ freed' = FreeModel(ev[w].model)
    /\ models' = DropModel(ev[w].model)
    /\ UNCHANGED <<modelWrites, dataWrites, nextModel, nextEval>>
    /\ UNCHANGED <<scriptVars, fileVars, pool>>

\* line 124, the prior is finite: fall through to line 128
PriorPass(w) ==
    /\ ev[w].pc = "L124"
    /\ ~PriorRejects(ev[w].params[1])
    /\ DoCall(w, "lnprior", ev[w].i, "L128", ev[w].i)

\* line 128: orbit.calc_EA_RPP(data, params, model)
CalcEARPP(w) ==
    /\ ev[w].pc = "L128"
    /\ DoCall(w, "calc_EA_RPP", ev[w].i, "L129", ev[w].i)

\* line 129: orbit.calc_RV(data, params, model)
CalcRV(w) ==
    /\ ev[w].pc = "L129"
    /\ DoCall(w, "calc_RV", ev[w].i, "L130", ev[w].i)

\* line 130: orbit.calc_offsets(data, params, model, i), then the next i
CalcOffsets(w) ==
    /\ ev[w].pc = "L130"
    /\ DoCall(w, "calc_offsets", ev[w].i, "L121", ev[w].i + 1)

\* lines 132-135: the loop is over; one proper-motion call
CalcPMs(w) ==
    /\ ev[w].pc = "L121"
    /\ ev[w].i >= nplanets
    /\ DoCall(w, IF args.use_epoch_astrometry
                 THEN "calc_PMs_epoch_astrometry"
                 ELSE "calc_PMs_no_epoch_astrometry", -1, "L137", ev[w].i)

\* the priors line 140 adds to the likelihood: that of params, which the loop
\* left at the last planet
AllPriors(theta, P, params) == [k \in 1..P |-> ParamsOf(theta, k - 1)]
ReturnedPriors(theta, P, params) == <<params>>

\* lines 137-140 with params bound: the diagnostics record or the scalar
ReturnValue(w) ==
    /\ ev[w].pc = "L137"
    /\ ev[w].params # NoParams
    /\ LET p == ev[w].params[1]
           acc == ModelAcc(ev[w].model)
           cs == IF ev[w].returninfo
                 THEN <<Call("calcL", -1)>>
                 ELSE <<Call("lnprior", ev[w].i - 1), Call("calcL", -1)>>
           r == IF ev[w].returninfo
                THEN [kind |-> "diag", priors |-> <<>>, lparams |-> <<p>>,
                      lmodel |-> acc]
                ELSE [kind |-> "scalar",
                      priors |-> ReturnedPriors(ev[w].theta, nplanets, p),
                      lparams |-> <<p>>, lmodel |-> acc]
       IN  ev' = [ev EXCEPT ![w].pc = "done", ![w].ret = r,
                            ![w].calls = @ \o cs]
    /\ models' = DropModel(ev[w].model)
    /\ UNCHANGED <<freed, modelWrites, dataWrites, nextModel, nextEval>>
    /\ UNCHANGED <<scriptVars, fileVars, pool>>

\* lines 138/140 with nplanets = 0: params was never bound, a NameError
ReturnRaise(w) ==
    /\ ev[w].pc = "L137"
    /\ ev[w].params = NoParams
    /\ ev' = [ev EXCEPT ![w].pc = "done", ![w].ret = Raised]
    /\ models' = DropModel(ev[w].model)
    /\ UNCHANGED <<freed, modelWrites, dataWrites, nextModel, nextEval>>
    /\ UNCHANGED <<scriptVars, fileVars, pool>>


----------------------------------------------------------------------------
(* The initial chain state, lines 45-81 *)

NoFile == <<>>
NoArray == [T |-> 0, W |-> 0, row |-> <<>>]
NoSampler == <<>>

\* a column of a row: taken from column src of its source, divided by the
\* source's column div (-1: not divided)
Col(src, div) == [src |-> src, div |-> div]

PlainRow(n) == [k \in 1..n |-> Col(k - 1, -1)]

Min(a, b) == IF a <= b THEN a ELSE b
Max(a, b) == IF a >= b THEN a ELSE b

\* the length of a[:n] on an axis of length T
NoClip(T, n) == T
SliceLen(T, n) == IF n >= 0 THEN Min(n, T) ELSE Max(T + n, 0)

\* the axis-1 length of np.ones((ntemps, 100, 2 + 7*nplanets)), line 56
GuessW(requested) == GuessWalkers

\* lines 56-61: ones of shape (ntemps, 100, 2 + 7*nplanets) times init
GuessChain(n, requested, P) ==
    [T |-> n, W |-> GuessW(requested), row |-> PlainRow(SharedLen + PlanetLen * P)]

\* lines 45-61: no start file; np.ones rejects a negative dimension
BuildGuess ==
    /\ pc = "L45"
    /\ args.start_file = NoFile
    /\ IF ntemps < 0
       THEN /\ pc' = "aborted" /\ abortAt' = "L56" /\ exitStatus' = "error"
            /\ UNCHANGED par0
       ELSE /\ par0' = GuessChain(ntemps, nwalkers, nplanets)
            /\ pc' = "L79"
            /\ UNCHANGED <<abortAt, exitStatus>>
    /\ UNCHANGED <<args, ntemps, nwalkers, ndim, sampler, rounds, diagLeft>>
    /\ UNCHANGED <<fileVars, pool, evalVars>>

\* lines 74-76 on one row r (0-based columns 8, 9, 10, 0 are 9, 10, 11, 1 here)
ShiftColumns(r) ==
    LET r1 == [r EXCEPT ![9] = r[10]]
        r2 == [r1 EXCEPT ![10] = r1[11]]
    IN  [r2 EXCEPT ![1] = Col(r2[1].src, r2[10].src)]

\* line 77: par0[:ntemps, :, :-2]
Truncate(a, n) ==
    [T |-> SliceLen(a.T, n), W |-> a.W,
     row |-> SubSeq(a.row, 1, Len(a.row) - LegacyCols)]

\* lines 73-77 on the array of file f
CheckpointChain(f, n) ==
    Truncate([T |-> f.T, W |-> f.W, row |-> ShiftColumns(PlainRow(f.C))], n)

\* lines 73-77: the start file; column 10 must exist
LoadCheckpoint ==
    /\ pc = "L45"
    /\ args.start_file # NoFile
    /\ LET f == args.start_file[1]
       IN  IF f.C < 11
           THEN /\ pc' = "aborted" /\ abortAt' = "L74" /\ exitStatus' = "error"
                /\ UNCHANGED par0
           ELSE /\ par0' = CheckpointChain(f, ntemps)
                /\ pc' = "L79"
                /\ UNCHANGED <<abortAt, exitStatus>>
    /\ UNCHANGED <<args, ntemps, nwalkers, ndim, sampler, rounds, diagLeft>>
    /\ UNCHANGED <<fileVars, pool, evalVars>>

\* lines 79-81: par0[:, 0, 0], par0[0, :, 0] and par0[0, 0, :] index element 0
\* of the other axes, so an empty axis is an index error
DeriveShape ==
    /\ pc = "L79"
    /\ IF par0.W = 0 \/ par0.T = 0 \/ Len(par0.row) = 0
       THEN /\ pc' = "aborted" /\ exitStatus' = "error"
            /\ abortAt' = IF par0.W = 0 \/ Len(par0.row) = 0 THEN "L79" ELSE "L80"
            /\ ntemps' = IF par0.W = 0 \/ Len(par0.row) = 0 THEN ntemps ELSE par0.T
            /\ UNCHANGED <<nwalkers, ndim>>
       ELSE /\ ntemps' = par0.T
            /\ nwalkers' = par0.W
            /\ ndim' = Len(par0.row)
            /\ pc' = "L154"
            /\ UNCHANGED <<abortAt, exitStatus>>
    /\ UNCHANGED <<args, par0, sampler, rounds, diagLeft>>
    /\ UNCHANGED <<fileVars, pool, evalVars>>

----------------------------------------------------------------------------
(* The sampler, lines 154-155 *)

\* line 154: emcee.PTSampler(ntemps, nwalkers, ndim, lnprob, return_one, ...)
ConstructSampler ==
    /\ pc = "L154"
    /\ sampler' = <<[ntemps |-> ntemps, nwalkers |-> nwalkers, ndim |-> ndim]>>
    /\ pc' = "L155"
    /\ UNCHANGED <<args, par0, ntemps, nwalkers, ndim, rounds, diagLeft,
                   abortAt, exitStatus>>
    /\ UNCHANGED <<fileVars, pool, evalVars>>

\* the frames of finished calls are dropped, and their Model objects with them
Forget(ms) ==
    /\ freed' = freed \ ms
    /\ modelWrites' = {x \in modelWrites : x[1] \notin ms}

\* line 155: a thread of the sampler evaluates lnprob at a position
SamplerCall(w) ==
    /\ pc = "L155"
    /\ rounds <= args.nstep
    /\ \E theta \in Thetas(sampler[1].ndim) : Enter(w, theta, FALSE)
    /\ UNCHANGED <<scriptVars, fileVars, pool>>

\* line 155: every thread has returned; the round ends, or the exception of
\* an evaluation leaves run_mcmc and ends the script
RoundBarrier ==
    /\ pc = "L155"
    /\ rounds <= args.nstep
    /\ \A w \in pool : ev[w].pc = "done"
    /\ IF \E w \in pool : ev[w].ret.kind = "raised"
       THEN /\ pc' = "aborted" /\ abortAt' = "L155" /\ exitStatus' = "error"
            /\ UNCHANGED rounds
       ELSE /\ rounds' = rounds + 1
            /\ UNCHANGED <<pc, abortAt, exitStatus>>
    /\ ev' = [w \in pool |-> IdleFrame]
    /\ Forget({ev[w].model : w \in pool})
    /\ UNCHANGED <<args, par0, ntemps, nwalkers, ndim, sampler, diagLeft>>
    /\ UNCHANGED <<fileVars, pool, models, dataWrites, nextModel, nextEval>>

\* line 155 returns: the step budget is used up
RunMcmcReturn ==
    /\ pc = "L155"
    /\ rounds = args.nstep + 1
    /\ pc' = "L160"
    /\ UNCHANGED <<args, par0, ntemps, nwalkers, ndim, sampler, rounds,
                   diagLeft, abortAt, exitStatus>>
    /\ UNCHANGED <<fileVars, pool, evalVars>>

----------------------------------------------------------------------------
(* The diagnostics loop, lines 160-167 *)

\* line 160: shape = sample0.lnprobability[0].shape, walkers x retained steps;
\* the loops of lines 162-163 visit shape[0] * shape[1] samples
ChainShape ==
    /\ pc = "L160"
    /\ \E k \in 0..MaxSamples :
          /\ diagLeft' = k
          /\ pc' = IF k = 0 THEN "L172" ELSE "L164"
    /\ UNCHANGED <<args, par0, ntemps, nwalkers, ndim, sampler, rounds,
                   abortAt, exitStatus>>
    /\ UNCHANGED <<fileVars, pool, evalVars>>

\* line 164: res = lnprob(sample0.chain[0][i, j], returninfo=True)
DiagnosticsCall ==
    /\ pc = "L164"
    /\ diagLeft > 0
    /\ \E theta \in Thetas(sampler[1].ndim) : Enter(1, theta, TRUE)
    /\ UNCHANGED <<scriptVars, fileVars, pool>>

\* lines 165-167: the fields of res are read; -inf has none
DiagnosticsStore ==
    /\ pc = "L164"
    /\ ev[1].pc = "done"
    /\ IF ev[1].ret.kind = "diag"
       THEN /\ diagLeft' = diagLeft - 1
            /\ pc' = IF diagLeft = 1 THEN "L172" ELSE pc
            /\ UNCHANGED <<abortAt, exitStatus>>
       ELSE /\ pc' = "aborted" /\ exitStatus' = "error"
            /\ abortAt' = IF ev[1].ret.kind = "raised" THEN "L164" ELSE "L165"
            /\ UNCHANGED diagLeft
    /\ ev' = [ev EXCEPT ![1] = IdleFrame]
    /\ Forget({ev[1].model})
    /\ UNCHANGED <<args, par0, ntemps, nwalkers, ndim, sampler, rounds>>
    /\ UNCHANGED <<fileVars, pool, models, dataWrites, nextModel, nextEval>>

----------------------------------------------------------------------------
(* The output file, lines 172-177 *)

\* os.path.isfile(filename), line 174: a regular file, written before this
\* run ("old") or by it ("new"); a directory is not one
NeverTaken(e) == FALSE
IsFile(e) == e \in {"old", "new"}

\* line 174 is false: try the next index
ProbeTaken ==
    /\ pc = "L172"
    /\ idx < MaxIndex
    /\ IsFile(fs[idx])
    /\ idx' = idx + 1
    /\ UNCHANGED <<scriptVars, fs, fs0, written, pool, evalVars>>

\* lines 175-177: out.writeto(filename, overwrite=False) refuses a path that
\* exists; after a write, exit()
WriteOutput ==
    /\ pc = "L172"
    /\ idx < MaxIndex
    /\ ~IsFile(fs[idx])
    /\ IF fs[idx] = "absent"
       THEN /\ fs' = [fs EXCEPT ![idx] = "new"]
            /\ written' = written \cup {idx}
            /\ pc' = "exited" /\ exitStatus' = "ok"
            /\ UNCHANGED abortAt
       ELSE /\ pc' = "aborted" /\ abortAt' = "L176" /\ exitStatus' = "error"
            /\ UNCHANGED <<fs, written>>
    /\ UNCHANGED <<args, par0, ntemps, nwalkers, ndim, sampler, rounds, diagLeft>>
    /\ UNCHANGED <<fs0, idx, pool, evalVars>>

\* line 172: range(1000) is used up; the script has no statement left and
\* ends like any script that reaches its last line
LoopExhausted ==
    /\ pc = "L172"
    /\ idx = MaxIndex
    /\ pc' = "end" /\ exitStatus' = "ok"
    /\ UNCHANGED <<args, par0, ntemps, nwalkers, ndim, sampler, rounds,
                   diagLeft, abortAt>>
    /\ UNCHANGED <<fileVars, pool, evalVars>>


----------------------------------------------------------------------------
(* Specifications *)

Files == {<<[T |-> t, W |-> w, C |-> c]>> :
            t \in 0..MaxT, w \in 0..MaxW,
            c \in 9..12 \cup
                  {SharedLen + PlanetLen * q + LegacyCols : q \in 2..MaxP}}

NoOutput == [k \in 0..(MaxIndex - 1) |-> "absent"]

\* the state after line 39, for the command line a
AfterParse(a) ==
    /\ args = a
    /\ pc = "L45"
    /\ par0 = NoArray
    /\ ntemps = a.ntemps
    /\ nwalkers = a.nwalkers
    /\ ndim = 0
    /\ sampler = NoSampler
    /\ rounds = 0
    /\ diagLeft = 0
    /\ abortAt = "none"
    /\ exitStatus = "running"
    /\ idx = 0
    /\ written = {}
    /\ pool = 1..a.nthreads
    /\ ev = [w \in 1..a.nthreads |-> IdleFrame]
    /\ models = <<>>
    /\ freed = {}
    /\ modelWrites = {}
    /\ dataWrites = {}
    /\ nextModel = 1
    /\ nextEval = 1

\* the state after line 154, for a command line that gets that far
AfterConstruct(a) ==
    LET chain == IF a.start_file = NoFile
                 THEN GuessChain(a.ntemps, a.nwalkers, a.nplanets)
                 ELSE CheckpointChain(a.start_file[1], a.ntemps)
    IN  /\ args = a
        /\ pc = "L155"
        /\ par0 = chain
        /\ ntemps = chain.T
        /\ nwalkers = chain.W
        /\ ndim = Len(chain.row)
        /\ sampler = <<[ntemps |-> chain.T, nwalkers |-> chain.W,
                        ndim |-> Len(chain.row)]>>
        /\ rounds = 0
        /\ diagLeft = 0
        /\ abortAt = "none"
        /\ exitStatus = "running"
        /\ idx = 0
        /\ written = {}
        /\ pool = 1..a.nthreads
        /\ ev = [w \in 1..a.nthreads |-> IdleFrame]
        /\ models = <<>>
        /\ freed = {}
        /\ modelWrites = {}
        /\ dataWrites = {}
        /\ nextModel = 1
        /\ nextEval = 1

\* the whole run up to the return of run_mcmc, one thread
RunArgs ==
    [nstep : 0..MaxStep, nthreads : {1}, use_epoch_astrometry : {FALSE},
     ntemps : (-1)..(MaxT + 1), nwalkers : {1, GuessWalkers},
     nplanets : 0..MaxP, start_file : {NoFile} \cup Files]

Init ==
    /\ \E a \in RunArgs : AfterParse(a)
    /\ fs = NoOutput
    /\ fs0 = NoOutput

Next ==
    \/ BuildGuess
    \/ LoadCheckpoint
    \/ DeriveShape
    \/ ConstructSampler
    \/ \E w \in pool : SamplerCall(w)
    \/ \E w \in pool : AllocModel(w)
    \/ \E w \in pool : DecodeParams(w)
    \/ \E w \in pool : DecodeRaise(w)
    \/ \E w \in pool : PriorReject(w)
    \/ \E w \in pool : PriorPass(w)
    \/ \E w \in pool : CalcEARPP(w)
    \/ \E w \in pool : CalcRV(w)
    \/ \E w \in pool : CalcOffsets(w)
    \/ \E w \in pool : CalcPMs(w)
    \/ \E w \in pool : ReturnValue(w)
    \/ \E w \in pool : ReturnRaise(w)
    \/ RoundBarrier
    \/ RunMcmcReturn

Spec == Init /\ [][Next]_vars

\* the evaluations of one run on one thread: those of the sampler, then those
\* of the diagnostics loop
EvalFiles ==
    {<<[T |-> 1, W |-> 1, C |-> SharedLen + PlanetLen * q + LegacyCols]>> :
       q \in 1..MaxP}

EvalArgs ==
    [nstep : {0}, nthreads : {1}, use_epoch_astrometry : BOOLEAN,
     ntemps : {1}, nwalkers : {GuessWalkers},
     nplanets : 0..MaxP, start_file : {NoFile} \cup EvalFiles]

InitEval ==
    /\ \E a \in EvalArgs : AfterConstruct(a)
    /\ fs = NoOutput
    /\ fs0 = NoOutput

NextEval ==
    \/ \E w \in pool : SamplerCall(w)
    \/ \E w \in pool : AllocModel(w)
    \/ \E w \in pool : DecodeParams(w)
    \/ \E w \in pool : DecodeRaise(w)
    \/ \E w \in pool : PriorReject(w)
    \/ \E w \in pool : PriorPass(w)
    \/ \E w \in pool : CalcEARPP(w)
    \/ \E w \in pool : CalcRV(w)
    \/ \E w \in pool : CalcOffsets(w)
    \/ \E w \in pool : CalcPMs(w)
    \/ \E w \in pool : ReturnValue(w)
    \/ \E w \in pool : ReturnRaise(w)
    \/ RoundBarrier
    \/ RunMcmcReturn
    \/ ChainShape
    \/ DiagnosticsCall
    \/ DiagnosticsStore

SpecEval == InitEval /\ [][NextEval]_vars

\* one round of the sampler on a pool of NumWorkers threads
PoolArgs ==
    {[nstep |-> 0, nthreads |-> NumWorkers, use_epoch_astrometry |-> FALSE,
      ntemps |-> 1, nwalkers |-> GuessWalkers, nplanets |-> c[1],
      start_file |-> c[2]] :
        c \in {<<0, NoFile>>, <<1, NoFile>>,
               <<1, <<[T |-> 1, W |-> 1, C |-> 11]>> >>,
               <<2, <<[T |-> 1, W |-> 1, C |-> 11]>> >>}}

InitPool ==
    /\ \E a \in PoolArgs : AfterConstruct(a)
    /\ fs = NoOutput
    /\ fs0 = NoOutput

NextPool ==
    \/ \E w \in pool : SamplerCall(w)
    \/ \E w \in pool : AllocModel(w)
    \/ \E w \in pool : DecodeParams(w)
    \/ \E w \in pool : DecodeRaise(w)
    \/ \E w \in pool : PriorReject(w)
    \/ \E w \in pool : PriorPass(w)
    \/ \E w \in pool : CalcEARPP(w)
    \/ \E w \in pool : CalcRV(w)
    \/ \E w \in pool : CalcOffsets(w)
    \/ \E w \in pool : CalcPMs(w)
    \/ \E w \in pool : ReturnValue(w)
    \/ \E w \in pool : ReturnRaise(w)
    \/ RoundBarrier
    \/ RunMcmcReturn

SpecPool == InitPool /\ [][NextPool]_vars

\* the file name loop, for every content of the output directory
DefaultArgs ==
    [nstep |-> 0, nthreads |-> 1, use_epoch_astrometry |-> FALSE,
     ntemps |-> 1, nwalkers |-> GuessWalkers, nplanets |-> 1,
     start_file |-> NoFile]

InitSerializer ==
    /\ \E f \in [0..(MaxIndex - 1) -> {"absent", "old", "dir"}] :
          fs = f /\ fs0 = f
    /\ args = DefaultArgs
    /\ pc = "L172"
    /\ par0 = GuessChain(1, GuessWalkers, 1)
    /\ ntemps = 1
    /\ nwalkers = GuessWalkers
    /\ ndim = SharedLen + PlanetLen
    /\ sampler = <<[ntemps |-> 1, nwalkers |-> GuessWalkers,
                    ndim |-> SharedLen + PlanetLen]>>
    /\ rounds = 1
    /\ diagLeft = 0
    /\ abortAt = "none"
    /\ exitStatus = "running"
    /\ idx = 0
    /\ written = {}
    /\ pool = {1}
    /\ ev = [w \in {1} |-> IdleFrame]
    /\ models = <<>>
    /\ freed = {}
    /\ modelWrites = {}
    /\ dataWrites = {}
    /\ nextModel = 2
    /\ nextEval = 2

NextSerializer ==
    \/ ProbeTaken
    \/ WriteOutput
    \/ LoopExhausted

SpecSerializer == InitSerializer /\ [][NextSerializer]_vars


----------------------------------------------------------------------------
(* Vocabulary of the properties *)

Terminated == pc \in {"exited", "aborted", "end"}

Indices == 0..(MaxIndex - 1)

\* the smallest index of S
Smallest(S) == CHOOSE i \in S : \A j \in S : i <= j

Orbital == {"calc_EA_RPP", "calc_RV", "calc_offsets"}

\* planet k is the first planet of theta whose prior is not finite
FirstBad(theta, P, k) ==
    /\ k \in 0..(P - 1)
    /\ Decodable(theta, k)
    /\ ~PriorFinite(ParamsOf(theta, k))
    /\ \A j \in 0..(k - 1) : PriorFinite(ParamsOf(theta, j))

\* every planet of theta has a finite prior
AllFinite(theta, P) ==
    \A j \in 0..(P - 1) : Decodable(theta, j) /\ PriorFinite(ParamsOf(theta, j))

\* the functions called in the frame f, with their planet
CallsOf(f) == {f.calls[n] : n \in 1..Len(f.calls)}

RECURSIVE OrbitCalls(_)
\* what the kernels add to a Model for planets 0..P-1, in order
OrbitCalls(P) ==
    IF P = 0 THEN <<>>
    ELSE OrbitCalls(P - 1) \o <<Call("calc_EA_RPP", P - 1), Call("calc_RV", P - 1),
                                Call("calc_offsets", P - 1)>>

PMCall ==
    Call(IF args.use_epoch_astrometry THEN "calc_PMs_epoch_astrometry"
         ELSE "calc_PMs_no_epoch_astrometry", -1)

----------------------------------------------------------------------------
(* C1: when some candidate name is free, the serializer writes exactly one  *)
(* file, at the smallest index whose name does not exist yet, and leaves    *)
(* every file that existed unchanged.  As stated (a name "exists" when      *)
(* anything has it), checked when the script has ended.                     *)
C1_AsClaimed ==
    (Terminated /\ \E i \in Indices : fs0[i] = "absent") =>
        /\ written = {Smallest({i \in Indices : fs0[i] = "absent"})}
        /\ \A i \in Indices : fs0[i] # "absent" => fs[i] = fs0[i]

(* C1 amended: the loop stops at the smallest index that holds no regular   *)
(* file.  If that name is absent, exactly one file is written, there, and   *)
(* the script exits; if something that is no regular file has the name,     *)
(* the write fails, the script ends in an error and nothing is written.     *)
(* Nothing that existed before is ever changed.                             *)
C1_FirstNonFile ==
    /\ \A i \in Indices : fs0[i] # "absent" => fs[i] = fs0[i]
    /\ \A i \in Indices : i \notin written => fs[i] = fs0[i]
    /\ (Terminated /\ \E i \in Indices : fs0[i] # "old") =>
          LET j == Smallest({i \in Indices : fs0[i] # "old"})
          IN  IF fs0[j] = "absent"
              THEN written = {j} /\ fs[j] = "new" /\ pc = "exited"
              ELSE written = {} /\ pc = "aborted" /\ abortAt = "L176"

\* indices 0 and 1 hold files, index 2 is free, and the file went to index 2
C1_Witness ==
    /\ pc = "exited"
    /\ fs0[0] = "old" /\ fs0[1] = "old" /\ fs0[2] = "absent"
    /\ written = {2}

(* C4: when every candidate name is taken by a file, the run ends in a      *)
(* fatal error and no existing file is modified.                            *)
C4_AsClaimed ==
    (Terminated /\ \A i \in Indices : fs0[i] = "old") =>
        exitStatus = "error" /\ fs = fs0

----------------------------------------------------------------------------
(* C2: if planet k is the first planet whose prior is not finite, lnprob    *)
(* returns -inf in scalar mode and in diagnostics mode, has released its    *)
(* Model, and has evaluated nothing for a planet after k, no proper motion  *)
(* and no likelihood.                                                       *)
C2_ShortCircuit ==
    \A w \in pool : \A k \in 0..MaxP :
        (nplanets >= 1 /\ ev[w].pc # "idle" /\ FirstBad(ev[w].theta, nplanets, k)) =>
            /\ \A c \in CallsOf(ev[w]) :
                  /\ c.planet >= 0 /\ c.planet <= k
                  /\ c.fn \in Orbital => c.planet < k
            /\ ev[w].pc = "done" =>
                  /\ ev[w].ret = NegInf
                  /\ ev[w].model \in freed
                  /\ Call("lnprior", k) \in CallsOf(ev[w])

\* a diagnostics-mode call on two planets, the second of which is rejected
C2_Witness ==
    \E w \in pool :
        /\ ev[w].pc = "done" /\ ev[w].returninfo
        /\ nplanets = 2 /\ FirstBad(ev[w].theta, nplanets, 1)
        /\ ev[w].ret = NegInf

(* C8: for P >= 1 and a vector whose every planet has a finite prior,       *)
(* scalar-mode lnprob returns the prior of the last planet's parameters     *)
(* plus the likelihood of the accumulated model; the priors of planets      *)
(* 0..P-2 are evaluated for the finiteness test and not added.              *)
C8_LastPriorOnly ==
    \A w \in pool :
        (nplanets >= 1 /\ ev[w].pc = "done" /\ ~ev[w].returninfo
            /\ AllFinite(ev[w].theta, nplanets)) =>
            LET last == ParamsOf(ev[w].theta, nplanets - 1)
            IN  /\ ev[w].ret.kind = "scalar"
                /\ ev[w].ret.priors = <<last>>
                /\ ev[w].ret.lparams = <<last>>
                /\ ev[w].ret.lmodel = OrbitCalls(nplanets) \o <<PMCall>>
                /\ \A j \in 0..(nplanets - 1) : Call("lnprior", j) \in CallsOf(ev[w])

\* a scalar-mode call on two planets with finite priors has returned
C8_Witness ==
    \E w \in pool :
        /\ ev[w].pc = "done" /\ ~ev[w].returninfo
        /\ nplanets = 2 /\ AllFinite(ev[w].theta, nplanets)
        /\ ev[w].ret.kind = "scalar"

(* C9: the orbital model is evaluated for a planet only after the priors of *)
(* all P planets were found finite, so an evaluation that returns -inf has  *)
(* made no orbital-model call.  As stated.                                  *)
C9_AsClaimed ==
    \A w \in pool :
        /\ (\E c \in CallsOf(ev[w]) : c.fn \in Orbital) =>
              \A j \in 0..(nplanets - 1) : Call("lnprior", j) \in CallsOf(ev[w])
        /\ ev[w].ret = NegInf => \A c \in CallsOf(ev[w]) : c.fn \notin Orbital

(* C9 amended: the orbital model is evaluated for planet i only after the   *)
(* priors of planets 0..i were found finite; an evaluation that returns     *)
(* -inf because of planet k has made the orbital-model calls of planets     *)
(* 0..k-1 and none for planet k or a later one.                             *)
C9_PriorBeforeOrbit ==
    \A w \in pool :
        /\ \A n \in 1..Len(ev[w].calls) :
              LET c == ev[w].calls[n]
              IN  c.fn \in Orbital =>
                    \A j \in 0..c.planet :
                        /\ PriorFinite(ParamsOf(ev[w].theta, j))
                        /\ \E m \in 1..(n - 1) : ev[w].calls[m] = Call("lnprior", j)
        /\ \A k \in 0..MaxP :
              (ev[w].ret = NegInf /\ FirstBad(ev[w].theta, nplanets, k)) =>
                  {c \in CallsOf(ev[w]) : c.fn \in Orbital} =
                      {Call(fn, j) : fn \in Orbital, j \in 0..(k - 1)}

\* the second of two planets was rejected after the first one's orbit was computed
C9_Witness ==
    \E w \in pool :
        /\ ev[w].ret = NegInf
        /\ nplanets = 2 /\ FirstBad(ev[w].theta, nplanets, 1)
        /\ Call("calc_offsets", 0) \in CallsOf(ev[w])

----------------------------------------------------------------------------
(* C10: under any interleaving of the pool's evaluations, every evaluation  *)
(* has a Model of its own, which only it writes and releases, and no        *)
(* evaluation writes the shared data object.                                *)
C10_OwnModel ==
    /\ \A x \in modelWrites : \A y \in modelWrites : x[1] = y[1] => x[2] = y[2]
    /\ \A v \in pool : \A w \in pool :
          (v # w /\ ev[v].model # 0 /\ ev[w].model # 0) => ev[v].model # ev[w].model
    /\ \A m \in freed : \E w \in pool : ev[w].model = m /\ ev[w].ret = NegInf
    /\ dataWrites = {}

\* two evaluations are under way at once and each has written its Model
C10_Witness ==
    \E v \in pool : \E w \in pool :
        /\ v # w
        /\ ev[v].pc \in {"L129", "L130"} /\ ev[w].pc \in {"L129", "L130"}
        /\ <<ev[v].model, ev[v].id>> \in modelWrites
        /\ <<ev[w].model, ev[w].id>> \in modelWrites

----------------------------------------------------------------------------
(* C3: resuming from a checkpoint of shape (T, W, C) with n temperatures    *)
(* requested yields a chain state of shape (min(n, T), W, C - 2), and the   *)
(* sampler is constructed with exactly these dimensions.  As stated, for a  *)
(* checkpoint with no empty axis and n >= 1: once the start file is read    *)
(* the chain state is there, and the script goes on to construct the        *)
(* sampler with its shape.                                                  *)
C3_AsClaimed ==
    (args.start_file # NoFile /\ pc # "L45" /\ args.ntemps >= 1
        /\ args.start_file[1].T >= 1 /\ args.start_file[1].W >= 1) =>
        LET f == args.start_file[1]
        IN  /\ pc # "aborted"
            /\ par0.T = Min(args.ntemps, f.T)
            /\ par0.W = f.W
            /\ Len(par0.row) = f.C - LegacyCols
            /\ sampler # NoSampler =>
                  sampler[1] = [ntemps |-> par0.T, nwalkers |-> par0.W,
                                ndim |-> Len(par0.row)]

(* C3 amended: for a checkpoint with at least 11 columns and n >= 0 the     *)
(* chain state has shape (min(n, T), W, C - 2), and max(T + n, 0)           *)
(* temperatures for n < 0; when none of its axes is empty the sampler is    *)
(* constructed with exactly its three dimensions, whatever --nwalkers was.  *)
(* With fewer than 11 columns, or an empty axis (n = 0, T = 0, W = 0), the  *)
(* script ends in an index error before the sampler is constructed.         *)
C3_ResumeShape ==
    (args.start_file # NoFile /\ pc # "L45") =>
        LET f == args.start_file[1]
            n == args.ntemps
            t == IF n >= 0 THEN Min(n, f.T) ELSE Max(f.T + n, 0)
        IN  IF f.C < 11
            THEN pc = "aborted" /\ abortAt = "L74" /\ sampler = NoSampler
            ELSE /\ par0.T = t /\ par0.W = f.W /\ Len(par0.row) = f.C - LegacyCols
                 /\ IF t = 0 \/ f.W = 0
                    THEN pc \in {"L79", "aborted"} /\ sampler = NoSampler
                    ELSE /\ abortAt \notin {"L74", "L79", "L80"}
                         /\ pc \notin {"L79", "L154"} =>
                               sampler = <<[ntemps |-> t, nwalkers |-> f.W,
                                            ndim |-> f.C - LegacyCols]>>

\* a checkpoint of shape (2, 2, 11), one temperature and one walker requested:
\* the sampler has 1 temperature, 2 walkers and 9 parameters
C3_Witness ==
    /\ args.start_file = <<[T |-> 2, W |-> 2, C |-> 11]>>
    /\ args.ntemps = 1 /\ args.nwalkers = 1
    /\ sampler = <<[ntemps |-> 1, nwalkers |-> 2, ndim |-> 9]>>

(* C5: when ndim differs from 2 + 7*P, the run stops with a fatal           *)
(* configuration error before the sampler takes a step or evaluates lnprob. *)
(* As stated, for P >= 1 and --ntemps >= 1.                                 *)
C5_AsClaimed ==
    (ndim # 0 /\ ndim # SharedLen + PlanetLen * nplanets
        /\ nplanets >= 1 /\ args.ntemps >= 1) =>
        /\ nextEval = 1
        /\ pc \in {"L154", "aborted"}

(* C6: an evaluation of lnprob that raises is treated as -inf and the run   *)
(* goes on to the end of its step budget; the exception does not end it.    *)
(* As stated, for --ntemps >= 1: run_mcmc is never left by an exception.    *)
C6_AsClaimed == args.ntemps >= 1 => ~(pc = "aborted" /\ abortAt = "L155")

(* C7: without a start file, the temperature count and the walker count of  *)
(* the initial chain state and of the sampler are the ones requested with   *)
(* --ntemps and --nwalkers.                                                 *)
C7_AsClaimed ==
    (args.start_file = NoFile /\ pc \in {"L154", "L155", "L160"}) =>
        /\ par0.T = args.ntemps /\ par0.W = args.nwalkers
        /\ ntemps = args.ntemps /\ nwalkers = args.nwalkers
        /\ sampler # NoSampler =>
              sampler[1].ntemps = args.ntemps /\ sampler[1].nwalkers = args.nwalkers


====
